---- MODULE Spec2Model ----
(***************************************************************************)
(* Model of the resource-management-dashboard custom-page store            *)
(* (CustomPagesProvider) and of the S3 table's filter-expression           *)
(* evaluator.                                                              *)
(*                                                                         *)
(* The store is a React component: `pages` is its state, every operation   *)
(* is a closure over the `pages` value of the render that created it and   *)
(* ends in setPages(<value computed from that closure>), and the           *)
(* persist effect runs after the next render commits.                      *)
(***************************************************************************)
EXTENDS Integers, Sequences, FiniteSets, TLC

VARIABLES
    pages,      \* the React state: the value of the latest setPages call
    rendered,   \* the `pages` the operations of the current render closed over
    storage,    \* localStorage: a function from the keys present to their values
    dirty,      \* TRUE while a setPages call waits for its render
    nops,       \* store operations invoked so far
    issued,     \* history: every id Math.random has produced for the store so far
    reissued,   \* history: the ids Math.random has produced more than once
    last,       \* history: the latest operation, its arguments and its outcome
    tokens,     \* filterElements of the S3 table after the map at lines 361-406
    verdict,    \* what evaluateFilterExpression returned for `tokens`
    rows,       \* s3InventoryData.data, the dataset the S3 table was built with
    filterElements, \* the React state of the S3 table's filter builder
    filteredRows,   \* the memo of lines 430-433: the rows the grid shows
    sizeColumn,     \* two cells of the table's size column and how the grid ordered them
    tab2            \* a second provider, in another tab, on the same localStorage

vars ==
    <<pages, rendered, storage, dirty, nops, issued, reissued, last, tokens, verdict,
      rows, filterElements, filteredRows, sizeColumn, tab2>>
storeVars == <<pages, rendered, storage, dirty, nops, issued, reissued, last>>
filterVars == <<tokens, verdict>>
tableVars == <<rows, filterElements, filteredRows>>
(* what the operations of the first provider never touch *)
asideVars == <<tableVars, sizeColumn, tab2>>

----------------------------------------------------------------------------
(* Bounds of the model *)

MaxPages == 2       \* pages in the collection
MaxWidgets == 2     \* widgets on one page
MaxOps == 2         \* store operations in one behaviour

(* Math.random().toString(36).substr(2, 9): any of the strings it can return *)
Ids == {"a", "b"}
(* ids a caller or an imported document can name; "c" is never generated *)
AnyIds == Ids \cup {"c"}

----------------------------------------------------------------------------
(* JavaScript values *)

(* primitives are atoms; strings are the atoms that do not start with # *)
Undefined == "#undefined"
NumFortyTwo == "#42"
NumZero == "#0"
BoolTrue == "#true"
EmptyString == ""

(* ToBoolean of a primitive *)
Truthy(v) == v \notin {Undefined, NumZero, EmptyString, "#false", "#null"}
IsString(v) == v \notin {Undefined, NumFortyTwo, NumZero, BoolTrue, "#false", "#null"}

(* a value that is an array or not: Array.isArray reads the tag *)
Arr(s) == [arr |-> TRUE, v |-> s]
NotArr == [arr |-> FALSE, v |-> <<>>]
IsArray(x) == x.arr

(* null as an element of an array of objects *)
Null == [null |-> TRUE]
IsNullish(o) == "null" \in DOMAIN o

Infinity == "Infinity"

----------------------------------------------------------------------------
(* Sequence helpers (Array.prototype) *)

Range(s) == {s[k] : k \in 1..Len(s)}

RECURSIVE FilterSeq(_, _)
(* s.filter(x => Keep(x)) with Keep given as the set of elements kept *)
FilterSeq(s, keep) ==
    IF s = <<>> THEN <<>>
    ELSE IF Head(s) \in keep THEN <<Head(s)>> \o FilterSeq(Tail(s), keep)
    ELSE FilterSeq(Tail(s), keep)

StartsWith(s, p) == Len(s) >= Len(p) /\ SubSeq(s, 1, Len(p)) = p
Includes(s, sub) ==
    \E k \in 1..(Len(s) - Len(sub) + 1) : SubSeq(s, k, k + Len(sub) - 1) = sub

----------------------------------------------------------------------------
(* localStorage.  A key is the sequence of its characters. *)

KeyCustomPages == <<"c","u","s","t","o","m","P","a","g","e","s">>
KeyGridLayouts == <<"g","r","i","d","L","a","y","o","u","t","s">>
KeyWidgetPositions ==
    <<"w","i","d","g","e","t","P","o","s","i","t","i","o","n","s">>
KeyLastWidgetPositions ==
    <<"l","a","s","t","W","i","d","g","e","t","P","o","s","i","t","i","o","n","s">>
FilterKeyPrefix ==
    <<"s","3","-","b","u","c","k","e","t","s","-","f","i","l","t","e","r","s","-">>
(* `s3-buckets-filters-${widgetId}` *)
FilterKey(widgetId) == FilterKeyPrefix \o <<widgetId>>

(* keys other parts of the application, or the grid library, may have left *)
KeyRgl == <<"r","g","l","-","7">>
KeyLayoutS3 == <<"l","a","y","o","u","t","-","s","3">>
KeyTheme == <<"t","h","e","m","e">>
OtherKeys ==
    {KeyRgl, KeyLayoutS3, KeyTheme, KeyGridLayouts, KeyWidgetPositions,
     KeyLastWidgetPositions, FilterKey("b")}

SetItem(st, k, v) == [x \in DOMAIN st \cup {k} |-> IF x = k THEN v ELSE st[x]]
RemoveItem(st, k) == [x \in DOMAIN st \ {k} |-> st[x]]
RemoveItems(st, ks) == [x \in DOMAIN st \ ks |-> st[x]]

(* JSON.parse(JSON.stringify(v)) of a layout item or a widget: a number that  *)
(* is Infinity is written as null                                           *)
JsonItem(o) ==
    IF "y" \in DOMAIN o /\ o.y = Infinity THEN [o EXCEPT !.y = "null"] ELSE o
JsonPage(p) ==
    [p EXCEPT !.widgets = [k \in 1..Len(p.widgets) |-> JsonItem(p.widgets[k])],
              !.layout  = [k \in 1..Len(p.layout) |-> JsonItem(p.layout[k])]]
(* the value read back from the blob JSON.stringify(ps) *)
Json(ps) == [k \in 1..Len(ps) |-> JsonPage(ps[k])]

(* useState initialiser: the collection a provider mounted on `st` starts with *)
InitialPages(st) == IF KeyCustomPages \in DOMAIN st THEN st[KeyCustomPages] ELSE <<>>

----------------------------------------------------------------------------
(* The store's operations: the value each one hands to setPages, computed   *)
(* from ps, the `pages` of its closure.  g[k] is what Math.random returns    *)
(* while the k-th page is mapped.                                           *)

GridModulus == 12
DefaultW == 6
DefaultH == 4

addPage(ps, title, id) ==
    ps \o <<[id |-> id, title |-> title, widgets |-> <<>>, layout |-> <<>>]>>

removePage(ps, id) == FilterSeq(ps, {p \in Range(ps) : p.id # id})

(* a slot that advances by one column per item *)
DefaultXByOne(page) == Len(page.layout) % GridModulus
(* x of the default slot of a new widget on `page` *)
DefaultX(page) == (Len(page.layout) * 2) % GridModulus

addWidgetToPage(ps, pageId, type, title, isHeart, g) ==
    LET Add(page, k) ==
            IF page.id = pageId
            THEN LET newWidget == [id |-> g[k], type |-> type, title |-> title,
                                   isHeart |-> isHeart, x |-> DefaultX(page),
                                   y |-> Infinity, w |-> DefaultW, h |-> DefaultH]
                     newLayout == [i |-> g[k], x |-> newWidget.x, y |-> newWidget.y,
                                   w |-> newWidget.w, h |-> newWidget.h]
                 IN [page EXCEPT !.widgets = Append(page.widgets, newWidget),
                                 !.layout = Append(page.layout, newLayout)]
            ELSE page
    IN [n \in 1..Len(ps) |-> Add(ps[n], n)]

removeWidgetFromPage(ps, pageId, widgetId) ==
    LET Rem(page, k) ==
            IF page.id = pageId
            THEN [page EXCEPT
                    !.widgets = FilterSeq(page.widgets,
                                    {w \in Range(page.widgets) : w.id # widgetId}),
                    !.layout = FilterSeq(page.layout,
                                    {l \in Range(page.layout) : l.i # widgetId})]
            ELSE page
    IN [n \in 1..Len(ps) |-> Rem(ps[n], n)]

updatePageLayout(ps, pageId, layout) ==
    LET Upd(page, k) == IF page.id = pageId THEN [page EXCEPT !.layout = layout] ELSE page
    IN [n \in 1..Len(ps) |-> Upd(ps[n], n)]

(* page.widgets.find(w => w.id === widgetId): the index of the first match, 0 if none *)
FindWidget(page, widgetId) ==
    IF \E k \in 1..Len(page.widgets) : page.widgets[k].id = widgetId
    THEN CHOOSE k \in 1..Len(page.widgets) :
            /\ page.widgets[k].id = widgetId
            /\ \A j \in 1..(k - 1) : page.widgets[j].id # widgetId
    ELSE 0

copyWidget(ps, pageId, widgetId, g) ==
    LET Copy(page, k) ==
            IF page.id = pageId /\ FindWidget(page, widgetId) # 0
            THEN LET originalWidget == page.widgets[FindWidget(page, widgetId)]
                     newWidget == [originalWidget EXCEPT !.id = g[k]]
                     newLayout == [i |-> g[k], x |-> DefaultX(page), y |-> Infinity,
                                   w |-> DefaultW, h |-> DefaultH]
                 IN [page EXCEPT !.widgets = Append(page.widgets, newWidget),
                                 !.layout = Append(page.layout, newLayout)]
            ELSE page
    IN [n \in 1..Len(ps) |-> Copy(ps[n], n)]

updatePageTitle(ps, pageId, newTitle) ==
    LET Upd(page, k) == IF page.id = pageId THEN [page EXCEPT !.title = newTitle] ELSE page
    IN [n \in 1..Len(ps) |-> Upd(ps[n], n)]

updateWidgetTitle(ps, pageId, widgetId, newTitle) ==
    LET Upd(page, k) ==
            IF page.id = pageId
            THEN [page EXCEPT !.widgets =
                    [j \in 1..Len(page.widgets) |->
                        IF page.widgets[j].id = widgetId
                        THEN [page.widgets[j] EXCEPT !.title = newTitle]
                        ELSE page.widgets[j]]]
            ELSE page
    IN [n \in 1..Len(ps) |-> Upd(ps[n], n)]

(* a sweep that overlooks the keys containing 'layout' *)
SweepMatchesNoLayout(key) ==
    \/ StartsWith(key, <<"r","g","l","-">>)
    \/ Includes(key, <<"w","i","d","g","e","t">>)
    \/ Includes(key, <<"p","o","s","i","t","i","o","n">>)

(* resetAllPages: the keys its loop collects, and the storage it leaves *)
SweepMatches(key) ==
    \/ StartsWith(key, <<"r","g","l","-">>)
    \/ Includes(key, <<"l","a","y","o","u","t">>)
    \/ Includes(key, <<"w","i","d","g","e","t">>)
    \/ Includes(key, <<"p","o","s","i","t","i","o","n">>)

(* a reset by localStorage.clear() *)
resetStorageClear(st) == [k \in {} |-> <<>>]
resetStorage(st) ==
    LET st1 == RemoveItems(st, {KeyCustomPages, KeyGridLayouts, KeyWidgetPositions,
                                KeyLastWidgetPositions})
        keysToRemove == {key \in DOMAIN st1 : SweepMatches(key)}
    IN RemoveItems(st1, keysToRemove)

----------------------------------------------------------------------------
(* importPage(config).  config.title is a primitive; config.widgets and     *)
(* config.layout are tagged as arrays or not; g[k] is the id Math.random     *)
(* returns for the k-th widget and pid the one for the page.                *)

S3Buckets == "s3-buckets"
NoError == ""

(* line 313: the configuration is rejected *)
InvalidConfig(config) ==
    \/ ~Truthy(config.title)
    \/ ~IsArray(config.widgets)
    \/ ~IsArray(config.layout)

(* widgetIdMap.has(old) and widgetIdMap.get(old) once every widget is mapped: *)
(* a later widget with the same id overwrites the entry of an earlier one    *)
HasNewId(ws, old) == \E k \in 1..Len(ws) : ws[k].id = old
NewIdOf(ws, g, old) ==
    g[CHOOSE k \in 1..Len(ws) :
        /\ ws[k].id = old
        /\ \A j \in (k + 1)..Len(ws) : ws[j].id # old]

(* lines 319-323; reading .id of null throws *)
FirstNull(s) ==
    IF \E k \in 1..Len(s) : IsNullish(s[k])
    THEN CHOOSE k \in 1..Len(s) :
            IsNullish(s[k]) /\ \A j \in 1..(k - 1) : ~IsNullish(s[j])
    ELSE 0
NewWidgets(ws, g) == [k \in 1..Len(ws) |-> [ws[k] EXCEPT !.id = g[k]]]

(* the layout rewrite without the `|| item.i` fallback *)
NewLayoutNoFallback(ws, ls, g) ==
    [k \in 1..Len(ls) |->
        [ls[k] EXCEPT !.i = IF HasNewId(ws, ls[k].i)
                            THEN NewIdOf(ws, g, ls[k].i)
                            ELSE Undefined]]

(* lines 326-329 *)
NewLayout(ws, ls, g) ==
    [k \in 1..Len(ls) |->
        [ls[k] EXCEPT !.i = IF HasNewId(ws, ls[k].i) /\ Truthy(NewIdOf(ws, g, ls[k].i))
                            THEN NewIdOf(ws, g, ls[k].i)
                            ELSE ls[k].i]]

RECURSIVE RestoreFilters(_, _, _, _)
(* lines 340-347: the forEach from widget k on *)
RestoreFilters(st, ws, g, k) ==
    IF k > Len(ws) THEN st
    ELSE LET widget == ws[k]
             newWidgetId == NewIdOf(ws, g, widget.id)
         IN IF /\ widget.type = S3Buckets
               /\ "filters" \in DOMAIN widget
               /\ Truthy(newWidgetId)
            THEN RestoreFilters(SetItem(st, FilterKey(newWidgetId), widget.filters),
                                ws, g, k + 1)
            ELSE RestoreFilters(st, ws, g, k + 1)

(* importPage with the filters restored ahead of the layout rewrite *)
importPageFiltersFirst(ps, st, config, g, pid) ==
    IF InvalidConfig(config)
    THEN [error |-> "Invalid page configuration",
          set |-> FALSE, pages |-> ps, storage |-> st, draws |-> <<>>]
    ELSE LET ws == config.widgets.v
             ls == config.layout.v
         IN IF FirstNull(ws) # 0
            THEN [error |-> "TypeError", set |-> FALSE,
                  pages |-> ps, storage |-> st,
                  draws |-> [k \in 1..FirstNull(ws) |-> g[k]]]
            ELSE IF FirstNull(ls) # 0
            THEN [error |-> "TypeError", set |-> FALSE,
                  pages |-> ps, storage |-> RestoreFilters(st, ws, g, 1),
                  draws |-> [k \in 1..Len(ws) |-> g[k]]]
            ELSE [error |-> NoError, set |-> TRUE,
                  pages |-> Append(ps, [id |-> pid, title |-> config.title,
                                        widgets |-> NewWidgets(ws, g),
                                        layout |-> NewLayout(ws, ls, g)]),
                  storage |-> RestoreFilters(st, ws, g, 1),
                  draws |-> [k \in 1..Len(ws) |-> g[k]] \o <<pid>>]

(* The outcome of importPage: the error it threw if any, the value handed to *)
(* setPages (ps itself when setPages was not reached), the storage it leaves *)
(* and the ids Math.random produced on the way, in order.                    *)
importPage(ps, st, config, g, pid) ==
    IF InvalidConfig(config)
    THEN [error |-> "Invalid page configuration",
          set |-> FALSE, pages |-> ps, storage |-> st, draws |-> <<>>]
    ELSE LET ws == config.widgets.v
             ls == config.layout.v
         IN IF FirstNull(ws) # 0
            THEN [error |-> "TypeError", set |-> FALSE,
                  pages |-> ps, storage |-> st,
                  draws |-> [k \in 1..FirstNull(ws) |-> g[k]]]
            ELSE IF FirstNull(ls) # 0
            THEN [error |-> "TypeError", set |-> FALSE,
                  pages |-> ps, storage |-> st,
                  draws |-> [k \in 1..Len(ws) |-> g[k]]]
            ELSE LET newPage == [id |-> pid, title |-> config.title,
                                 widgets |-> NewWidgets(ws, g),
                                 layout |-> NewLayout(ws, ls, g)]
                 IN [error |-> NoError, set |-> TRUE,
                     pages |-> Append(ps, newPage),
                     storage |-> RestoreFilters(st, ws, g, 1),
                     draws |-> [k \in 1..Len(ws) |-> g[k]] \o <<pid>>]

----------------------------------------------------------------------------
(* The filter-expression evaluator of the S3 table.                          *)
(* A token is what the map of lines 361-406 yields for a filter element on   *)
(* the row under test: "true" or "false" for a filter term, "AND", "OR",     *)
(* "(" or ")" for the others.                                                *)

MaxTokens == 5

Bools == {"true", "false"}
TokenKinds == Bools \cup {"AND", "OR", "(", ")"}

(* the operators written the other way round *)
EvalStringSwapped(ts) ==
    [k \in 1..Len(ts) |->
        CASE ts[k] = "AND" -> "||"
          [] ts[k] = "OR" -> "&&"
          [] OTHER -> ts[k]]

(* lines 411-421: the pieces appended to evalString *)
EvalString(ts) ==
    [k \in 1..Len(ts) |->
        CASE ts[k] = "AND" -> "&&"
          [] ts[k] = "OR" -> "||"
          [] OTHER -> ts[k]]

(* The JavaScript lexer on the concatenation: the pieces carry no space, so *)
(* adjacent words run together into one identifier (truefalse, truetrue)    *)
WordRun(src) ==
    CHOOSE n \in 0..Len(src) :
        /\ \A k \in 1..n : src[k] \in Bools
        /\ (n < Len(src) => src[n + 1] \notin Bools)

RECURSIVE Lex(_)
Lex(src) ==
    IF src = <<>> THEN <<>>
    ELSE IF WordRun(src) = 0 THEN <<Head(src)>> \o Lex(Tail(src))
    ELSE IF WordRun(src) = 1 THEN <<Head(src)>> \o Lex(Tail(src))
    ELSE <<"identifier">> \o Lex(SubSeq(src, WordRun(src) + 1, Len(src)))

(* Completion values: "true", "false", or "throw" for an exception raised   *)
(* while the expression is evaluated                                        *)
JsAnd(a, b) == IF a = "throw" THEN "throw" ELSE IF a = "false" THEN "false" ELSE b
JsOr(a, b) == IF a = "throw" THEN "throw" ELSE IF a = "true" THEN "true" ELSE b

SyntaxError == [ok |-> FALSE, val |-> "throw", pos |-> 0]
Parsed(v, p) == [ok |-> TRUE, val |-> v, pos |-> p]
At(lx, p, sym) == p <= Len(lx) /\ lx[p] = sym

RECURSIVE ParseOr(_, _), OrTail(_, _), ParseAnd(_, _), AndTail(_, _)
RECURSIVE ParseCall(_, _), CallTail(_, _), ParsePrimary(_, _)

(* PrimaryExpression: a literal, an identifier (unbound: ReferenceError), or *)
(* a parenthesised expression                                                *)
ParsePrimary(lx, p) ==
    IF p > Len(lx) THEN SyntaxError
    ELSE IF lx[p] \in Bools THEN Parsed(lx[p], p + 1)
    ELSE IF lx[p] = "identifier" THEN Parsed("throw", p + 1)
    ELSE IF lx[p] = "("
    THEN LET e == ParseOr(lx, p + 1)
         IN IF e.ok /\ At(lx, e.pos, ")") THEN Parsed(e.val, e.pos + 1) ELSE SyntaxError
    ELSE SyntaxError

(* CallExpression: f(), f(x): calling a boolean (or an unbound name) throws *)
CallTail(lx, f) ==
    IF At(lx, f.pos, "(")
    THEN IF At(lx, f.pos + 1, ")")
         THEN CallTail(lx, Parsed("throw", f.pos + 2))
         ELSE LET a == ParseOr(lx, f.pos + 1)
              IN IF a.ok /\ At(lx, a.pos, ")")
                 THEN CallTail(lx, Parsed("throw", a.pos + 1))
                 ELSE SyntaxError
    ELSE f
ParseCall(lx, p) ==
    LET f == ParsePrimary(lx, p) IN IF f.ok THEN CallTail(lx, f) ELSE SyntaxError

(* LogicalANDExpression: operands of && joined left to right, short-circuit *)
AndTail(lx, l) ==
    IF At(lx, l.pos, "&&")
    THEN LET r == ParseCall(lx, l.pos + 1)
         IN IF r.ok THEN AndTail(lx, Parsed(JsAnd(l.val, r.val), r.pos)) ELSE SyntaxError
    ELSE l
ParseAnd(lx, p) ==
    LET l == ParseCall(lx, p) IN IF l.ok THEN AndTail(lx, l) ELSE SyntaxError

(* LogicalORExpression: operands are LogicalANDExpressions *)
OrTail(lx, l) ==
    IF At(lx, l.pos, "||")
    THEN LET r == ParseAnd(lx, l.pos + 1)
         IN IF r.ok THEN OrTail(lx, Parsed(JsOr(l.val, r.val), r.pos)) ELSE SyntaxError
    ELSE l
ParseOr(lx, p) ==
    LET l == ParseAnd(lx, p) IN IF l.ok THEN OrTail(lx, l) ELSE SyntaxError

(* new Function(`return ${evalString}`)() inside the try of lines 408-427 *)
evaluateFilterExpression(ts) ==
    LET lx == Lex(EvalString(ts))
        e == ParseOr(lx, 1)
    IN IF lx = <<>> THEN "undefined"                      \* `return ` alone
       ELSE IF ~e.ok \/ e.pos # Len(lx) + 1 THEN "true"    \* SyntaxError, caught
       ELSE IF e.val = "throw" THEN "true"                \* runtime error, caught
       ELSE e.val

----------------------------------------------------------------------------
(* Inputs *)

PageTitles == {"P"}
NewTitles == {"Q"}
WidgetInputs ==
    {[type |-> "text", title |-> "W", isHeart |-> FALSE],
     [type |-> S3Buckets, title |-> "S", isHeart |-> TRUE]}

(* an exported or hand-written widget and layout item of a configuration *)
CfgWidget(id) == [id |-> id, type |-> "text", title |-> "W", isHeart |-> FALSE]
CfgS3Widget(id) ==
    [id |-> id, type |-> S3Buckets, title |-> "S", isHeart |-> FALSE,
     filters |-> <<"name contains x">>]
CfgItem(i, x) == [i |-> i, x |-> x, y |-> "0", w |-> DefaultW, h |-> DefaultH]
Config(title, widgets, layout) ==
    [title |-> title, widgets |-> widgets, layout |-> layout]

(* what the grid's layout-change event carries: the page's items with the    *)
(* append-at-bottom y resolved to a row                                      *)
Resolved(layout) ==
    [k \in 1..Len(layout) |->
        IF layout[k].y = Infinity THEN [layout[k] EXCEPT !.y = "0"] ELSE layout[k]]
(* a layout no grid would emit: the store takes it all the same *)
WildLayout == <<[i |-> "c", x |-> 25, y |-> "0", w |-> 0, h |-> 0]>>

OneA == Arr(<<CfgWidget("a")>>)
ItemA == Arr(<<CfgItem("a", 0)>>)
(* documents whose import succeeds as intended, and one that names no widget *)
Configs ==
    {   Config("T", OneA, ItemA),
        Config("T", Arr(<<>>), Arr(<<CfgItem("b", 0)>>)) }
(* every shape of document the validation of importPage has to tell apart *)
AllConfigs ==
    Configs \cup
    {   Config("T", Arr(<<CfgS3Widget("a"), CfgWidget("c")>>),
                    Arr(<<CfgItem("c", 0), CfgItem("a", 6)>>)),
        \* titles
        Config(EmptyString, OneA, ItemA),
        Config(Undefined, OneA, ItemA),
        Config(NumZero, OneA, ItemA),
        Config(NumFortyTwo, Arr(<<>>), Arr(<<>>)),
        Config(BoolTrue, Arr(<<>>), Arr(<<>>)),
        \* widgets and layout that are no arrays
        Config("T", NotArr, ItemA),
        Config("T", OneA, NotArr),
        \* a widget no layout item names
        Config("T", OneA, Arr(<<>>)),
        \* null elements
        Config("T", Arr(<<CfgS3Widget("a"), Null>>), ItemA),
        Config("T", Arr(<<CfgS3Widget("a")>>), Arr(<<Null>>)) }

NoConfig == Config(Undefined, NotArr, NotArr)

(* collections an earlier session left in storage *)
SeedOne ==
    <<[id |-> "a", title |-> "P",
       widgets |-> <<[id |-> "b", type |-> S3Buckets, title |-> "S", isHeart |-> TRUE,
                      x |-> 0, y |-> "null", w |-> DefaultW, h |-> DefaultH]>>,
       layout |-> <<[i |-> "b", x |-> 0, y |-> "0", w |-> DefaultW, h |-> DefaultH]>>]>>
SeedTwo ==
    <<[id |-> "a", title |-> "P",
       widgets |-> <<[id |-> "a", type |-> "text", title |-> "W", isHeart |-> FALSE,
                      x |-> 0, y |-> "null", w |-> DefaultW, h |-> DefaultH]>>,
       layout |-> <<[i |-> "a", x |-> 0, y |-> "0", w |-> DefaultW, h |-> DefaultH]>>],
      [id |-> "b", title |-> "P", widgets |-> <<>>, layout |-> <<>>]>>
Seeds == {<<>>, SeedOne, SeedTwo}
(* a page with a full first round of default slots, its first widget resized *)
SeedSix ==
    LET ids == <<"c", "w2", "w3", "w4", "w5", "w6">>
    IN <<[id |-> "a", title |-> "P",
          widgets |-> [k \in 1..Len(ids) |->
                        [id |-> ids[k], type |-> "text", title |-> "W", isHeart |-> FALSE,
                         x |-> DefaultX([layout |-> SubSeq(ids, 1, k - 1)]),
                         y |-> "null", w |-> DefaultW, h |-> DefaultH]],
          layout |-> [k \in 1..Len(ids) |->
                        [i |-> ids[k], x |-> DefaultX([layout |-> SubSeq(ids, 1, k - 1)]),
                         y |-> "0",
                         w |-> IF k = 1 THEN DefaultW - 1 ELSE DefaultW,
                         h |-> DefaultH]]]>>

----------------------------------------------------------------------------
(* The state machine of the store *)

(* the record of an operation: its name, its arguments together with what   *)
(* Math.random returned to it, the message of the error it threw (NoError   *)
(* if none), whether the page and widget it named were there, and the       *)
(* document it was given                                                    *)
Op(name, args, error, found, config) ==
    [op |-> name, args |-> args, error |-> error, found |-> found, config |-> config]
NoArgs == [none |-> TRUE]
Threw(o) == o.error # NoError

HasPage(ps, pageId) == \E k \in 1..Len(ps) : ps[k].id = pageId
HasWidget(ps, pageId, widgetId) ==
    \E k \in 1..Len(ps) : ps[k].id = pageId /\ FindWidget(ps[k], widgetId) # 0
RoomFor(ps, pageId, room) ==
    \A k \in 1..Len(ps) : ps[k].id = pageId => Len(ps[k].widgets) < room
RoomForWidget(ps, pageId) == RoomFor(ps, pageId, MaxWidgets)
RECURSIVE DrawsFor(_, _, _)
(* the ids drawn, in order, while the pages at the indices in `hit` are mapped *)
DrawsFor(g, hit, k) ==
    IF k > Len(g) THEN <<>>
    ELSE (IF k \in hit THEN <<g[k]>> ELSE <<>>) \o DrawsFor(g, hit, k + 1)
PagesNamed(ps, pageId) == {k \in 1..Len(ps) : ps[k].id = pageId}
(* ids of `draws` that had been drawn before, or are drawn twice in `draws` *)
Repeated(draws, before) ==
    {draws[k] : k \in {j \in 1..Len(draws) :
        draws[j] \in before \/ \E i \in 1..(j - 1) : draws[i] = draws[j]}}

(* the provider mounted on the storage st, which holds `seed` *)
ProviderStart(seed, st) ==
    /\ pages = seed
    /\ rendered = seed
    /\ storage = st
    /\ dirty = FALSE
    /\ nops = 0
    /\ issued = {}
    /\ reissued = {}
    /\ last = Op("mount", NoArgs, NoError, TRUE, NoConfig)
    /\ tokens = <<>>
    /\ verdict = evaluateFilterExpression(<<>>)

(* no size column on screen; no second tab open *)
NoSizeColumn == [bytes |-> <<>>, cells |-> <<>>, sorted |-> FALSE, order |-> 0]
NoTab == [open |-> FALSE]

(* the provider mounted on a storage holding `seed` and the keys `others`:  *)
(* its effect has written back the collection it read. No S3 table is      *)
(* mounted and no other tab is open                                         *)
StoreStart(seed, others) ==
    /\ ProviderStart(seed, [k \in others \cup {KeyCustomPages} |->
                                IF k = KeyCustomPages THEN seed ELSE <<>>])
    /\ rows = <<>>
    /\ filterElements = <<>>
    /\ filteredRows = <<>>
    /\ sizeColumn = NoSizeColumn
    /\ tab2 = NoTab

(* setPages(v) by an operation that wrote st to storage and drew `draws` *)
SetPages(v, st, draws, op) ==
    /\ nops < MaxOps
    /\ pages' = v
    /\ storage' = st
    /\ issued' = issued \cup Range(draws)
    /\ reissued' = reissued \cup Repeated(draws, issued)
    /\ last' = op
    /\ dirty' = TRUE
    /\ nops' = nops + 1
    /\ UNCHANGED <<rendered, tokens, verdict, asideVars>>

(* addPage called with one of `titles` *)
DoAddPageOf(titles) ==
    \E title \in titles, id \in Ids :
        /\ Len(rendered) < MaxPages
        /\ SetPages(addPage(rendered, title, id), storage, <<id>>,
                    Op("addPage", [title |-> title, id |-> id], NoError, TRUE, NoConfig))

DoAddPage == DoAddPageOf(PageTitles)

DoRemovePage ==
    \E id \in AnyIds :
        SetPages(removePage(rendered, id), storage, <<>>,
                 Op("removePage", [id |-> id], NoError, HasPage(rendered, id), NoConfig))

(* addWidgetToPage called for one of `pageIds` with one of `inputs`, on     *)
(* pages of fewer than `room` widgets                                       *)
DoAddWidgetToPageOf(pageIds, inputs, room) ==
    \E pageId \in pageIds, in \in inputs, g \in [1..Len(rendered) -> Ids] :
        /\ RoomFor(rendered, pageId, room)
        /\ SetPages(addWidgetToPage(rendered, pageId, in.type, in.title, in.isHeart, g),
                    storage, DrawsFor(g, PagesNamed(rendered, pageId), 1),
                    Op("addWidgetToPage",
                       [pageId |-> pageId, type |-> in.type, title |-> in.title,
                        isHeart |-> in.isHeart,
                        ids |-> DrawsFor(g, PagesNamed(rendered, pageId), 1)],
                       NoError, HasPage(rendered, pageId), NoConfig))

DoAddWidgetToPage == DoAddWidgetToPageOf(AnyIds, WidgetInputs, MaxWidgets)

DoRemoveWidgetFromPage ==
    \E pageId \in AnyIds, widgetId \in AnyIds :
        SetPages(removeWidgetFromPage(rendered, pageId, widgetId), storage, <<>>,
                 Op("removeWidgetFromPage", [pageId |-> pageId, widgetId |-> widgetId], NoError,
                    HasWidget(rendered, pageId, widgetId), NoConfig))

DoUpdatePageLayout ==
    \E pageId \in AnyIds :
        \E layout \in {WildLayout} \cup
                      {Resolved(rendered[k].layout) : k \in 1..Len(rendered)} :
            SetPages(updatePageLayout(rendered, pageId, layout), storage, <<>>,
                     Op("updatePageLayout", [pageId |-> pageId, layout |-> layout],
                        NoError, HasPage(rendered, pageId), NoConfig))

(* copyWidget on pages of fewer than `room` widgets *)
DoCopyWidgetOf(room) ==
    \E pageId \in AnyIds, widgetId \in AnyIds, g \in [1..Len(rendered) -> Ids] :
        /\ RoomFor(rendered, pageId, room)
        /\ SetPages(copyWidget(rendered, pageId, widgetId, g), storage,
                    DrawsFor(g, {k \in PagesNamed(rendered, pageId) :
                                    FindWidget(rendered[k], widgetId) # 0}, 1),
                    Op("copyWidget",
                       [pageId |-> pageId, widgetId |-> widgetId,
                        ids |-> DrawsFor(g, {k \in PagesNamed(rendered, pageId) :
                                                FindWidget(rendered[k], widgetId) # 0}, 1)],
                       NoError,
                       HasWidget(rendered, pageId, widgetId), NoConfig))

DoCopyWidget == DoCopyWidgetOf(MaxWidgets)

DoResetAllPages ==
    SetPages(<<>>, resetStorage(storage), <<>>, Op("resetAllPages", NoArgs, NoError, TRUE, NoConfig))

DoUpdatePageTitle ==
    \E pageId \in AnyIds, newTitle \in NewTitles :
        SetPages(updatePageTitle(rendered, pageId, newTitle), storage, <<>>,
                 Op("updatePageTitle", [pageId |-> pageId, title |-> newTitle],
                    NoError, HasPage(rendered, pageId), NoConfig))

DoUpdateWidgetTitle ==
    \E pageId \in AnyIds, widgetId \in AnyIds, newTitle \in NewTitles :
        SetPages(updateWidgetTitle(rendered, pageId, widgetId, newTitle), storage, <<>>,
                 Op("updateWidgetTitle",
                    [pageId |-> pageId, widgetId |-> widgetId, title |-> newTitle], NoError,
                    HasWidget(rendered, pageId, widgetId), NoConfig))

(* importPage: an exception leaves the React state alone (no setPages, no    *)
(* render); the caller catches it (Sidebar handleImportPage)                 *)
DoImportPage(configs) ==
    \E config \in configs :
      \E g \in [1..Len(config.widgets.v) -> Ids], pid \in Ids :
        LET r == importPage(rendered, storage, config, g, pid)
        IN /\ Len(rendered) < MaxPages
           /\ nops < MaxOps
           /\ pages' = IF r.set THEN r.pages ELSE pages
           /\ dirty' = (dirty \/ r.set)
           /\ storage' = r.storage
           /\ issued' = issued \cup Range(r.draws)
           /\ reissued' = reissued \cup Repeated(r.draws, issued)
           /\ last' = Op("importPage", [ids |-> r.draws], r.error, TRUE, config)
           /\ nops' = nops + 1
           /\ UNCHANGED <<rendered, tokens, verdict, asideVars>>

(* an effect that keeps the pages of the stored blob its collection lacks *)
persistPagesMerging(st, ps) ==
    SetItem(st, KeyCustomPages,
            Json(ps \o FilterSeq(InitialPages(st),
                                 {p \in Range(InitialPages(st)) :
                                    \A k \in 1..Len(ps) : ps[k].id # p.id})))
(* the effect of lines 102-104 run with the collection ps:                  *)
(* localStorage.setItem('customPages', JSON.stringify(pages))               *)
persistPages(st, ps) == SetItem(st, KeyCustomPages, Json(ps))

(* React renders the provider with the latest state and then runs the      *)
(* effect of lines 102-104                                                 *)
Render ==
    /\ dirty
    /\ rendered' = pages
    /\ storage' = persistPages(storage, pages)
    /\ dirty' = FALSE
    /\ UNCHANGED <<pages, nops, issued, reissued, last, tokens, verdict, asideVars>>

StoreNext ==
    \/ DoAddPage
    \/ DoRemovePage
    \/ DoAddWidgetToPage
    \/ DoRemoveWidgetFromPage
    \/ DoUpdatePageLayout
    \/ DoCopyWidget
    \/ DoResetAllPages
    \/ DoUpdatePageTitle
    \/ DoUpdateWidgetTitle
    \/ DoImportPage(Configs)
    \/ Render

Init ==
    \E seed \in Seeds, others \in {{}, OtherKeys} :
        (seed = SeedTwo => others = {}) /\ StoreStart(seed, others)
Next == StoreNext
Spec == Init /\ [][Next]_vars

(* The store driven by imports of every shape of document *)
ImportNext ==
    \/ DoAddPage
    \/ DoRemovePage
    \/ DoResetAllPages
    \/ DoImportPage(AllConfigs)
    \/ Render
ImportSpec == Init /\ [][ImportNext]_vars

(* The store from its first mount on an empty storage, driven by the       *)
(* operations that add and remove pages and widgets                        *)
FreshInit == StoreStart(<<>>, {})
FreshNext ==
    \/ DoAddPage
    \/ DoRemovePage
    \/ DoAddWidgetToPage
    \/ DoRemoveWidgetFromPage
    \/ DoCopyWidget
    \/ DoImportPage(AllConfigs)
    \/ Render
FreshSpec == FreshInit /\ [][FreshNext]_vars

(* The store driven by the operations that write layout items, with a      *)
(* hand-written document whose layout item lies off the grid               *)
WildConfig == Config("T", OneA, Arr(WildLayout))
GridNext ==
    \/ DoAddWidgetToPage
    \/ DoCopyWidget
    \/ DoUpdatePageLayout
    \/ DoImportPage({WildConfig})
    \/ Render
GridSpec == Init /\ [][GridNext]_vars

(* The store mounted on a page whose layout already has a full round of    *)
(* default slots                                                            *)
SlotInit == StoreStart(SeedSix, {})
SlotNext ==
    \/ DoAddWidgetToPageOf(AnyIds, WidgetInputs, Len(SeedSix[1].widgets) + MaxWidgets)
    \/ DoCopyWidgetOf(Len(SeedSix[1].widgets) + MaxWidgets)
    \/ DoRemoveWidgetFromPage
    \/ Render
SlotSpec == SlotInit /\ [][SlotNext]_vars

----------------------------------------------------------------------------
(* The dialogs of the sidebar and of the page view that add pages and       *)
(* widgets, next to callers that go to the store directly                   *)

(* titles a dialog's text field can hold: a word, nothing, a space, and a   *)
(* word between spaces                                                      *)
Blank == " "
Padded == " P "
DialogTitles == {"P", EmptyString, Blank, Padded}
(* String.prototype.trim on these titles *)
Trim(title) ==
    CASE title = Blank -> EmptyString
      [] title = Padded -> "P"
      [] OTHER -> title

(* a guard that takes the text as it stands *)
TitleAcceptedUntrimmed(title) == Truthy(title)

(* if (newPageTitle.trim()), if (newWidgetTitle.trim()) *)
TitleAccepted(title) == Truthy(Trim(title))

(* a handler that returned without calling the store *)
Declined(op) ==
    /\ nops < MaxOps
    /\ last' = op
    /\ nops' = nops + 1
    /\ UNCHANGED <<pages, rendered, storage, dirty, issued, reissued, tokens, verdict,
                   asideVars>>

(* Sidebar handleAddPage: newPageTitle goes to the store untrimmed *)
handleAddPage ==
    \E newPageTitle \in DialogTitles, id \in Ids :
        IF TitleAccepted(newPageTitle)
        THEN /\ Len(rendered) < MaxPages
             /\ SetPages(addPage(rendered, newPageTitle, id), storage, <<id>>,
                         Op("handleAddPage", [title |-> newPageTitle, id |-> id],
                            NoError, TRUE, NoConfig))
        ELSE Declined(Op("handleAddPage", [title |-> newPageTitle],
                         NoError, TRUE, NoConfig))

(* CustomPage handleAddWidget, on the page the view shows *)
handleAddWidget ==
    \E k \in 1..Len(rendered), newWidgetTitle \in DialogTitles,
       in \in WidgetInputs, g \in [1..Len(rendered) -> Ids] :
        LET pageId == rendered[k].id
            draws == DrawsFor(g, PagesNamed(rendered, pageId), 1)
        IN IF TitleAccepted(newWidgetTitle)
           THEN /\ RoomForWidget(rendered, pageId)
                /\ SetPages(addWidgetToPage(rendered, pageId, in.type, newWidgetTitle,
                                            in.isHeart, g),
                            storage, draws,
                            Op("handleAddWidget",
                               [pageId |-> pageId, type |-> in.type,
                                title |-> newWidgetTitle, isHeart |-> in.isHeart,
                                ids |-> draws],
                               NoError, TRUE, NoConfig))
           ELSE Declined(Op("handleAddWidget",
                            [pageId |-> pageId, type |-> in.type,
                             title |-> newWidgetTitle, isHeart |-> in.isHeart],
                            NoError, TRUE, NoConfig))

BlankInputs == {[type |-> "text", title |-> t, isHeart |-> FALSE] : t \in {EmptyString, Blank}}
ViewNext ==
    \/ handleAddPage
    \/ handleAddWidget
    \/ DoAddPageOf({EmptyString, Blank})
    \/ DoAddWidgetToPageOf(Ids, BlankInputs, MaxWidgets)
    \/ Render
ViewSpec == Init /\ [][ViewNext]_vars

----------------------------------------------------------------------------
(* The Share dialog of the page view and the Import tab of the sidebar      *)

(* titles a page can carry besides a plain word: digits, and a word         *)
(* followed by a numbered tag                                               *)
ShareTitles == {"P", "42", "P #1"}

(* generateYamlConfig: the document by its three entries. The title is      *)
(* interpolated as its characters stand (`title: ${page.title}`); widgets   *)
(* and layout go through stringify                                          *)
TemplateText(title) ==
    CASE title = NumFortyTwo -> "42"
      [] title = NumZero -> "0"
      [] title = BoolTrue -> "true"
      [] title = Undefined -> "undefined"
      [] OTHER -> title
generateYamlConfig(page) ==
    [title |-> TemplateText(page.title), widgets |-> page.widgets, layout |-> page.layout]

(* parse on the plain scalar after `title:`: digits resolve to a number,    *)
(* true to a boolean, nothing to null, " #" starts a comment and the        *)
(* spaces around the scalar are dropped                                     *)
YamlPlain(text) ==
    CASE text = "42" -> NumFortyTwo
      [] text = "0" -> NumZero
      [] text = "true" -> BoolTrue
      [] text \in {EmptyString, Blank} -> "#null"
      [] text = "P #1" -> "P"
      [] text = Padded -> "P"
      [] OTHER -> text

(* parse on the whole document: stringify quotes what a plain scalar would  *)
(* re-type, and writes Infinity as .inf, so a non-empty block sequence      *)
(* parses back to the elements it was written from                          *)
parse(doc) ==
    Config(YamlPlain(doc.title), Arr(doc.widgets), Arr(doc.layout))

(* Sidebar handleImportPage on the text the Share dialog shows for one of   *)
(* the pages, a page with widgets and layout items                          *)
handleImportPage ==
    \E k \in 1..Len(rendered) :
      LET page == rendered[k]
          config == parse(generateYamlConfig(page))
      IN /\ page.widgets # <<>>
         /\ page.layout # <<>>
         /\ \E g \in [1..Len(config.widgets.v) -> Ids], pid \in Ids :
              LET r == importPage(rendered, storage, config, g, pid)
              IN /\ Len(rendered) < MaxPages
                 /\ nops < MaxOps
                 /\ pages' = IF r.set THEN r.pages ELSE pages
                 /\ dirty' = (dirty \/ r.set)
                 /\ storage' = r.storage
                 /\ issued' = issued \cup Range(r.draws)
                 /\ reissued' = reissued \cup Repeated(r.draws, issued)
                 /\ last' = Op("handleImportPage", [page |-> page, ids |-> r.draws],
                               r.error, TRUE, config)
                 /\ nops' = nops + 1
                 /\ UNCHANGED <<rendered, tokens, verdict, asideVars>>

(* pages named in earlier sessions, one widget each *)
ShareInit ==
    \E title \in ShareTitles : StoreStart([SeedOne EXCEPT ![1].title = title], {})
ShareNext ==
    \/ handleImportPage
    \/ DoAddWidgetToPage
    \/ DoUpdatePageLayout
    \/ DoUpdatePageTitle
    \/ Render
ShareSpec == ShareInit /\ [][ShareNext]_vars

----------------------------------------------------------------------------
(* The filter builder of one S3 table, and the evaluation of its expression *)
(* on the row under test                                                    *)

SetFilterElements(ts) ==
    /\ tokens' = ts
    /\ verdict' = evaluateFilterExpression(ts)
    /\ UNCHANGED <<storeVars, asideVars>>

(* handleAddFilter: b is what the new term evaluates to on the row *)
handleAddFilter ==
    \E b \in Bools : Len(tokens) < MaxTokens /\ SetFilterElements(Append(tokens, b))
handleAddOperator ==
    \E operator \in {"AND", "OR"} :
        Len(tokens) < MaxTokens /\ SetFilterElements(Append(tokens, operator))
handleAddParenthesis ==
    \E type \in {"(", ")"} :
        Len(tokens) < MaxTokens /\ SetFilterElements(Append(tokens, type))

FilterNext ==
    \/ handleAddFilter
    \/ handleAddOperator
    \/ handleAddParenthesis
(* a table mounted with no saved filters, on a store with no pages *)
FilterInit == StoreStart(<<>>, {})
FilterSpec == FilterInit /\ [][FilterNext]_vars

----------------------------------------------------------------------------
(* The S3 buckets table: the dataset, the filter elements and the rows the  *)
(* grid shows. Strings the filter looks into are sequences of characters.   *)

MaxElements == 2

(* String.prototype.toLowerCase on the letters the dataset and the terms use *)
toLowerCase(s) ==
    [k \in 1..Len(s) |->
        CASE s[k] = "A" -> "a"
          [] s[k] = "F" -> "f"
          [] s[k] = "N" -> "n"
          [] s[k] = "O" -> "o"
          [] OTHER -> s[k]]
EndsWith(s, p) == Len(s) >= Len(p) /\ SubSeq(s, Len(s) - Len(p) + 1, Len(s)) = p

NA == <<"N", "/", "A">>
Standard == <<"S", "T", "D">>

(* datasets of rows by the S3Bucket interface (lines 55-91), with the       *)
(* attributes the string-valued fields read: all four rows, and a dataset   *)
(* that holds one row twice                                                 *)
Datasets ==
    LET Rule(name, status, transition) ==
            [LifecycleRule |-> name, Status |-> status, TransitionStorage |-> transition]
        Bucket(name, region, lifecycle) ==
            [attributes |-> [Name |-> name, Region |-> region, lifecycle |-> lifecycle],
             relationships |->
                [Account |-> [data |-> [id |-> <<"1">>, name |-> <<"o", "p", "s">>]]]]
        RowFoo == Bucket(<<"F", "o", "o">>, <<"e", "u">>,
                         <<Rule(<<"f", "o">>, <<"O", "n">>, <<"I", "A">>)>>)
        RowInner == Bucket(<<"a", "f", "O", "o">>, <<"e", "u">>, <<>>)
        RowFo == Bucket(<<"f", "o">>, <<"F", "O">>, <<Rule(<<>>, <<>>, <<>>)>>)
        RowNa == Bucket(<<"n", "/", "a">>, <<"a", "f">>, <<>>)
    IN {<<RowFoo, RowInner, RowFo, RowNa>>, <<RowNa, RowFoo, RowNa>>}

(* the switch with the one sentinel for every lifecycle field *)
FieldValueOneSentinel(row, field) ==
    LET FirstRule(key) ==
            IF row.attributes.lifecycle = <<>> THEN <<>>
            ELSE row.attributes.lifecycle[1][key]
    IN CASE field = "name" -> row.attributes.Name
         [] field = "account" -> row.relationships.Account.data.name
         [] field = "accountId" -> row.relationships.Account.data.id
         [] field = "region" -> row.attributes.Region
         [] field = "lifecycleRule" ->
                IF FirstRule("LifecycleRule") = <<>> THEN NA ELSE FirstRule("LifecycleRule")
         [] field = "lifecycleStatus" ->
                IF FirstRule("Status") = <<>> THEN NA ELSE FirstRule("Status")
         [] field = "storageClass" ->
                IF FirstRule("TransitionStorage") = <<>> THEN NA
                ELSE FirstRule("TransitionStorage")
         [] OTHER -> <<>>

(* lines 363-386: the switch on element.filter.field. The size and          *)
(* weeklyGrowth cases go through formatBytes and are not drawn here. In     *)
(* lifecycle[0]?.[key] || sentinel the empty string stands for undefined    *)
(* as well: || treats the two alike                                         *)
FieldValue(row, field) ==
    LET OrElse(a, b) == IF a = <<>> THEN b ELSE a
        FirstRule(key) ==
            IF row.attributes.lifecycle = <<>> THEN <<>>
            ELSE row.attributes.lifecycle[1][key]
    IN CASE field = "name" -> row.attributes.Name
         [] field = "account" -> row.relationships.Account.data.name
         [] field = "accountId" -> row.relationships.Account.data.id
         [] field = "region" -> row.attributes.Region
         [] field = "lifecycleRule" -> OrElse(FirstRule("LifecycleRule"), NA)
         [] field = "lifecycleStatus" -> OrElse(FirstRule("Status"), NA)
         [] field = "storageClass" -> OrElse(FirstRule("TransitionStorage"), Standard)
         [] OTHER -> <<>>

(* the operator switch with only the row's value lower-cased *)
TermHoldsTermCase(value, filter) ==
    CASE filter.operator = "contains" -> Includes(toLowerCase(value), filter.value)
      [] filter.operator = "equals" -> toLowerCase(value) = filter.value
      [] filter.operator = "startsWith" -> StartsWith(toLowerCase(value), filter.value)
      [] filter.operator = "endsWith" -> EndsWith(toLowerCase(value), filter.value)
      [] filter.operator = "isEmpty" -> value = <<>> \/ value = NA
      [] filter.operator = "isNotEmpty" -> value # <<>> /\ value # NA
      [] OTHER -> TRUE

(* lines 388-403: the switch on element.filter.operator *)
TermHolds(value, filter) ==
    CASE filter.operator = "contains" ->
            Includes(toLowerCase(value), toLowerCase(filter.value))
      [] filter.operator = "equals" -> toLowerCase(value) = toLowerCase(filter.value)
      [] filter.operator = "startsWith" ->
            StartsWith(toLowerCase(value), toLowerCase(filter.value))
      [] filter.operator = "endsWith" ->
            EndsWith(toLowerCase(value), toLowerCase(filter.value))
      [] filter.operator = "isEmpty" -> value = <<>> \/ value = NA
      [] filter.operator = "isNotEmpty" -> value # <<>> /\ value # NA
      [] OTHER -> TRUE

(* lines 361-406: the map of the filter elements on one row *)
RowTokens(row, elements) ==
    [k \in 1..Len(elements) |->
        IF elements[k].type = "filter" /\ "filter" \in DOMAIN elements[k]
        THEN IF TermHolds(FieldValue(row, elements[k].filter.field), elements[k].filter)
             THEN "true" ELSE "false"
        ELSE elements[k].value]

(* Array.prototype.filter keeps the rows the callback returns a truthy      *)
(* value for                                                                *)
RowKept(row, elements) == evaluateFilterExpression(RowTokens(row, elements)) = "true"

(* the memo with every element list handed to the evaluator *)
FilterRowsUnguarded(data, elements) ==
    LET Keep(row) == RowKept(row, elements) IN SelectSeq(data, Keep)

(* lines 430-433: filteredRows *)
FilterRows(data, elements) ==
    LET Keep(row) == RowKept(row, elements)
    IN IF Len(elements) = 0 THEN data ELSE SelectSeq(data, Keep)

(* what the dialog's three fields can hold *)
CurrentFilters ==
    {[field |-> "name", operator |-> o, value |-> <<"F", "O">>] :
        o \in {"contains", "equals", "startsWith", "endsWith"}}
    \cup {[field |-> "name", operator |-> "contains", value |-> <<"f", "o", "o">>],
          [field |-> "region", operator |-> "equals", value |-> <<"F", "O">>],
          [field |-> "name", operator |-> "contains", value |-> <<>>],
          [field |-> "lifecycleRule", operator |-> "isNotEmpty", value |-> <<>>],
          [field |-> "storageClass", operator |-> "isEmpty", value |-> <<>>]}

(* the widget the table sits in *)
TableWidgetId == "a"

(* setFilterElements(items), the render that follows with its memo, and the *)
(* effect of lines 275-277                                                  *)
SetTableElements(items, name, args) ==
    /\ filterElements' = items
    /\ filteredRows' = FilterRows(rows, items)
    /\ storage' = SetItem(storage, FilterKey(TableWidgetId), items)
    /\ last' = Op(name, args, NoError, TRUE, NoConfig)
    /\ UNCHANGED <<pages, rendered, dirty, nops, issued, reissued, tokens, verdict, rows,
                   sizeColumn, tab2>>

(* handleAddFilter, handleAddOperator and handleAddParenthesis on the       *)
(* element list; the id and the display text of an element are left out:   *)
(* the evaluation reads neither                                             *)
AddFilterElement ==
    \E currentFilter \in CurrentFilters :
        /\ Len(filterElements) < MaxElements
        /\ currentFilter.value # <<>> \/ currentFilter.operator \in {"isEmpty", "isNotEmpty"}
        /\ SetTableElements(Append(filterElements,
                                   [type |-> "filter", filter |-> currentFilter]),
                            "handleAddFilter", NoArgs)
AddOperatorElement ==
    \E operator \in {"AND", "OR"} :
        /\ Len(filterElements) < MaxElements
        /\ SetTableElements(Append(filterElements,
                                   [type |-> "operator", value |-> operator]),
                            "handleAddOperator", NoArgs)
AddParenthesisElement ==
    \E type \in {"open", "close"} :
        /\ Len(filterElements) < MaxElements
        /\ SetTableElements(Append(filterElements,
                                   [type |-> "parenthesis",
                                    value |-> IF type = "open" THEN "(" ELSE ")"]),
                            "handleAddParenthesis", NoArgs)

(* Array.prototype.splice: one element out, one element in (1-based) *)
SpliceOut(s, k) == SubSeq(s, 1, k - 1) \o SubSeq(s, k + 1, Len(s))
(* a splice that puts the element one place too early *)
SpliceInEarly(s, k, x) ==
    IF k = 1 THEN <<x>> \o s
    ELSE SubSeq(s, 1, k - 2) \o <<x>> \o SubSeq(s, k - 1, Len(s))
SpliceIn(s, k, x) == SubSeq(s, 1, k - 1) \o <<x>> \o SubSeq(s, k, Len(s))

(* handleDrop of the element dragged from dragIndex onto dropIndex         *)
(* (positions counted from 1); line 332 returns when the two are the same  *)
handleDrop ==
    \E dragIndex, dropIndex \in 1..Len(filterElements) :
        IF dragIndex = dropIndex
        THEN /\ last' = Op("handleDrop", [dragIndex |-> dragIndex, dropIndex |-> dropIndex],
                           NoError, TRUE, NoConfig)
             /\ UNCHANGED <<pages, rendered, storage, dirty, nops, issued, reissued,
                            filterVars, tableVars, sizeColumn, tab2>>
        ELSE SetTableElements(SpliceIn(SpliceOut(filterElements, dragIndex), dropIndex,
                                       filterElements[dragIndex]),
                              "handleDrop", [dragIndex |-> dragIndex, dropIndex |-> dropIndex])
(* handleTrashDrop of the element dragged from dragIndex *)
handleTrashDrop ==
    \E dragIndex \in 1..Len(filterElements) :
        SetTableElements(SpliceOut(filterElements, dragIndex), "handleTrashDrop",
                         [dragIndex |-> dragIndex])

(* the table mounted on a dataset, with the filter elements an earlier      *)
(* session saved under its key if any; the effect of lines 275-277 has run  *)
SavedElements ==
    {<<>>} \cup {<<[type |-> "filter", filter |-> f]>> :
                f \in {g \in CurrentFilters : g.field = "name"}}
TableInit ==
    \E data \in Datasets, saved \in SavedElements :
        /\ ProviderStart(<<>>, [k \in {KeyCustomPages, FilterKey(TableWidgetId)} |->
                                    IF k = KeyCustomPages THEN <<>> ELSE saved])
        /\ rows = data
        /\ filterElements = saved
        /\ filteredRows = FilterRows(data, saved)
        /\ sizeColumn = NoSizeColumn
        /\ tab2 = NoTab
TableNext ==
    \/ AddFilterElement
    \/ AddOperatorElement
    \/ AddParenthesisElement
    \/ handleDrop
    \/ handleTrashDrop
TableSpec == TableInit /\ [][TableNext]_vars

----------------------------------------------------------------------------
(* The size column of the S3 table. A byte count is the sequence of its     *)
(* digits in base 1024, the most significant first: <<1, 512>> is 1536.     *)
(* A formatted cell `${num} ${unit}` is the record of its two parts, num    *)
(* counted in hundredths: "1.5 KB" is [num |-> 150, unit |-> "KB"].         *)

(* lines 99-105. bytes / Math.pow(k, i) is exact in a double (k is a power  *)
(* of two), toFixed(2) rounds the exact value half up and parseFloat drops  *)
(* the trailing zeros; the rounding is done on 200 * bytes, digit by digit. *)
(* Math.log(bytes) / Math.log(k) is exact for the digit counts below except *)
(* next to 1024^5: for the three integers under it Math.log returns the     *)
(* double it returns for 1024^5 itself, the quotient is 5.0 and sizes[5] is *)
(* undefined.                                                               *)
formatBytes(bytes) ==
    LET LogIsFive ==
            /\ Len(bytes) = 5
            /\ \A j \in 1..4 : bytes[j] = 1023
            /\ bytes[5] >= 1021
        i == IF LogIsFive THEN 5 ELSE Len(bytes) - 1
        top == IF i >= Len(bytes) THEN 0 ELSE bytes[1]
        lower == IF i >= Len(bytes) THEN bytes ELSE Tail(bytes)
        Carry[n \in 0..Len(lower)] ==
            IF n = 0 THEN 0
            ELSE (200 * lower[Len(lower) - n + 1] + Carry[n - 1]) \div 1024
        sizes == <<"Bytes", "KB", "MB", "GB", "TB">>
    IN IF bytes = <<0>> THEN [num |-> 0, unit |-> "Bytes"]
       ELSE [num |-> (200 * top + Carry[Len(lower)] + 1) \div 2,
             unit |-> IF i + 1 \in DOMAIN sizes THEN sizes[i + 1] ELSE "undefined"]

(* lines 160-164: parseFloat of the text before the space, and the          *)
(* difference of the two numbers, in hundredths                             *)
sortComparator(v1, v2) == v1.num - v2.num

(* SizeBytes values of bucket rows *)
ByteCounts ==
    {   <<0>>, <<1>>, <<500>>, <<1023>>,
        <<1, 0>>, <<1, 5>>, <<1, 128>>, <<1, 512>>, <<1023, 1023>>,
        <<100, 0, 0>>, <<2, 0, 0, 0>>, <<1, 0, 0, 0, 0>>,
        <<1023, 1023, 1023, 1023, 1020>>, <<1023, 1023, 1023, 1023, 1023>> }

(* the grid has rendered the size cells of two rows *)
SizeInit ==
    \E a, b \in ByteCounts :
        /\ ProviderStart(<<>>, [k \in {KeyCustomPages} |-> <<>>])
        /\ rows = <<>>
        /\ filterElements = <<>>
        /\ filteredRows = <<>>
        /\ sizeColumn = [bytes |-> <<a, b>>,
                         cells |-> <<formatBytes(a), formatBytes(b)>>,
                         sorted |-> FALSE, order |-> 0]
        /\ tab2 = NoTab
(* a click on the header of the size column: the grid calls the comparator  *)
(* on the two cells                                                         *)
SortBySize ==
    /\ ~sizeColumn.sorted
    /\ sizeColumn' = [sizeColumn EXCEPT
                        !.sorted = TRUE,
                        !.order = sortComparator(sizeColumn.cells[1], sizeColumn.cells[2])]
    /\ UNCHANGED <<storeVars, filterVars, tableVars, tab2>>
SizeNext == SortBySize
SizeSpec == SizeInit /\ [][SizeNext]_vars

----------------------------------------------------------------------------
(* Two tabs: a second provider mounted on the same storage. Each provider   *)
(* keeps its own React state (lines 95-100) and reads storage only when it  *)
(* mounts; each runs the effect of lines 102-104 after its own renders.     *)
(* tab2 holds the second provider's state, the store variables the first's. *)

FirstTabTitles == {"T1"}
SecondTabTitles == {"T2"}

(* the second tab mounts on the storage the first has just mounted on *)
TabsInit ==
    \E seed \in Seeds :
        /\ ProviderStart(seed, [k \in {KeyCustomPages} |-> seed])
        /\ rows = <<>>
        /\ filterElements = <<>>
        /\ filteredRows = <<>>
        /\ sizeColumn = NoSizeColumn
        /\ tab2 = [open |-> TRUE, pages |-> InitialPages([k \in {KeyCustomPages} |-> seed]),
                   rendered |-> InitialPages([k \in {KeyCustomPages} |-> seed]),
                   dirty |-> FALSE, nops |-> 0, error |-> NoError]

(* setPages(v) in the second tab *)
Tab2SetPages(v) ==
    /\ tab2.open
    /\ tab2.nops < MaxOps
    /\ tab2' = [tab2 EXCEPT !.pages = v, !.dirty = TRUE, !.nops = @ + 1]
    /\ UNCHANGED <<storeVars, filterVars, tableVars, sizeColumn>>

Tab2AddPage ==
    \E title \in SecondTabTitles, id \in Ids :
        /\ Len(tab2.rendered) < MaxPages
        /\ Tab2SetPages(addPage(tab2.rendered, title, id))

Tab2RemovePage ==
    \E id \in AnyIds : Tab2SetPages(removePage(tab2.rendered, id))

(* the second tab renders and its effect writes the blob *)
Tab2Render ==
    /\ tab2.open
    /\ tab2.dirty
    /\ tab2' = [tab2 EXCEPT !.rendered = tab2.pages, !.dirty = FALSE]
    /\ storage' = persistPages(storage, tab2.pages)
    /\ UNCHANGED <<pages, rendered, dirty, nops, issued, reissued, last,
                   filterVars, tableVars, sizeColumn>>

TabsNext ==
    \/ DoAddPageOf(FirstTabTitles)
    \/ DoRemovePage
    \/ Render
    \/ Tab2AddPage
    \/ Tab2RemovePage
    \/ Tab2Render
TabsSpec == TabsInit /\ [][TabsNext]_vars

----------------------------------------------------------------------------
(* Reference notions for the filter claims, on the raw token stream *)

ToBool(v) == v = "true"
FromBool(b) == IF b THEN "true" ELSE "false"

RECURSIVE WfOperand(_, _), WfTail(_, _)
(* A well-formed boolean expression: operands joined by AND/OR, an operand *)
(* being a filter term or a parenthesised well-formed expression.  Each    *)
(* operator yields the position after what it read, 0 if it could not.     *)
WfOperand(ts, p) ==
    IF p = 0 \/ p > Len(ts) THEN 0
    ELSE IF ts[p] \in Bools THEN p + 1
    ELSE IF ts[p] = "("
    THEN LET q == WfTail(ts, WfOperand(ts, p + 1))
         IN IF q # 0 /\ q <= Len(ts) /\ ts[q] = ")" THEN q + 1 ELSE 0
    ELSE 0
WfTail(ts, q) ==
    IF q # 0 /\ q <= Len(ts) /\ ts[q] \in {"AND", "OR"}
    THEN WfTail(ts, WfOperand(ts, q + 1))
    ELSE q
WellFormed(ts) == WfTail(ts, WfOperand(ts, 1)) = Len(ts) + 1

RECURSIVE LtrOperand(_, _), LtrTail(_, _)
(* Strictly left to right: each operator combines what has been read so far *)
(* with the next operand, whatever the operator                             *)
LtrOperand(ts, p) ==
    IF ts[p] \in Bools THEN [val |-> ToBool(ts[p]), pos |-> p + 1]
    ELSE LET e == LtrTail(ts, LtrOperand(ts, p + 1))
         IN [val |-> e.val, pos |-> e.pos + 1]
LtrTail(ts, acc) ==
    IF acc.pos <= Len(ts) /\ ts[acc.pos] \in {"AND", "OR"}
    THEN LET r == LtrOperand(ts, acc.pos + 1)
         IN LtrTail(ts, [val |-> IF ts[acc.pos] = "AND" THEN acc.val /\ r.val
                                 ELSE acc.val \/ r.val,
                         pos |-> r.pos])
    ELSE acc
LeftToRight(ts) == LtrTail(ts, LtrOperand(ts, 1)).val

(* Nesting depth of position k, and the positions of `sym` outside parentheses *)
DepthAt(ts, k) ==
    Cardinality({j \in 1..(k - 1) : ts[j] = "("})
      - Cardinality({j \in 1..(k - 1) : ts[j] = ")"})
TopLevel(ts, sym) == {k \in 1..Len(ts) : ts[k] = sym /\ DepthAt(ts, k) = 0}

RECURSIVE AndBeforeOr(_)
(* AND binds tighter than OR: an expression is the disjunction of the parts *)
(* between its top-level ORs, and such a part the conjunction of the parts  *)
(* between its top-level ANDs                                               *)
AndBeforeOr(ts) ==
    IF TopLevel(ts, "OR") # {}
    THEN LET k == CHOOSE k \in TopLevel(ts, "OR") : TRUE
         IN AndBeforeOr(SubSeq(ts, 1, k - 1)) \/ AndBeforeOr(SubSeq(ts, k + 1, Len(ts)))
    ELSE IF TopLevel(ts, "AND") # {}
    THEN LET k == CHOOSE k \in TopLevel(ts, "AND") : TRUE
         IN AndBeforeOr(SubSeq(ts, 1, k - 1)) /\ AndBeforeOr(SubSeq(ts, k + 1, Len(ts)))
    ELSE IF Len(ts) = 1 THEN ToBool(ts[1])
    ELSE AndBeforeOr(SubSeq(ts, 2, Len(ts) - 1))

----------------------------------------------------------------------------
(* Claims about the filter evaluator (FilterSpec) *)

(* C3: on every token stream that is not a well-formed boolean expression,  *)
(* whatever the terms evaluate to on the row, evaluateFilterExpression      *)
(* returns true (the row is kept).                                          *)
C3_FailOpenOnMalformed ==
    (tokens # <<>> /\ ~WellFormed(tokens)) => verdict = "true"

(* C4 as stated: on every well-formed stream the verdict is that of the     *)
(* strictly left-to-right evaluation, parentheses aside.                    *)
C4_LeftToRight ==
    WellFormed(tokens) => verdict = FromBool(LeftToRight(tokens))

(* C4 amended: on every well-formed stream the verdict is that of the       *)
(* evaluation in which AND binds tighter than OR, parentheses aside.        *)
C4_AndBindsTighter ==
    WellFormed(tokens) => verdict = FromBool(AndBeforeOr(tokens))

(* C4 witness: a well-formed stream on which the two readings differ has    *)
(* been evaluated.                                                          *)
C4_Witness ==
    /\ WellFormed(tokens)
    /\ LeftToRight(tokens) # AndBeforeOr(tokens)
    /\ verdict = FromBool(AndBeforeOr(tokens))

----------------------------------------------------------------------------
(* Reference notions for the store claims *)

(* widgets and layout of page p in lockstep *)
Lockstep(p) ==
    /\ \A j \in 1..Len(p.widgets) :
        Cardinality({m \in 1..Len(p.layout) : p.layout[m].i = p.widgets[j].id}) = 1
    /\ \A m \in 1..Len(p.layout) :
        Cardinality({j \in 1..Len(p.widgets) : p.widgets[j].id = p.layout[m].i}) = 1

(* page ids unique in the collection, widget ids unique within their page *)
UniqueIds(ps) ==
    /\ \A j, k \in 1..Len(ps) : ps[j].id = ps[k].id => j = k
    /\ \A n \in 1..Len(ps) :
        \A j, k \in 1..Len(ps[n].widgets) :
            ps[n].widgets[j].id = ps[n].widgets[k].id => j = k

(* the documents the validation is required to reject *)
ShouldReject(config) ==
    \/ ~(IsString(config.title) /\ config.title # EmptyString)
    \/ ~IsArray(config.widgets)
    \/ ~IsArray(config.layout)

(* every layout item of the document names one of its widgets *)
LayoutNamesWidgets(config) ==
    \A m \in 1..Len(config.layout.v) :
        \E j \in 1..Len(config.widgets.v) :
            config.widgets.v[j].id = config.layout.v[m].i

(* the columns of the grid the page view lays the widgets out on *)
GridColumns == 20

(* the ids of the widgets of page p *)
WidgetIds(p) == {p.widgets[j].id : j \in 1..Len(p.widgets)}

(* the default slot the specification gives a widget appended to page p *)
SpecSlot(p, id) ==
    [i |-> id, x |-> (Len(p.layout) * 2) % GridColumns, y |-> Infinity,
     w |-> DefaultW, h |-> DefaultH]

(* the layout item addWidgetToPage appends to page p for a widget `id` *)
AddSlot(p, id) ==
    LET q == addWidgetToPage(<<p>>, p.id, "text", "W", FALSE, <<id>>)[1]
    IN q.layout[Len(q.layout)]

(* the storage keys the reset is to leave none of *)
Swept(key) ==
    \/ Len(key) >= 4 /\ SubSeq(key, 1, 4) = <<"r","g","l","-">>
    \/ \E a \in 1..Len(key) :
        \/ a + 5 <= Len(key) /\ SubSeq(key, a, a + 5) = <<"l","a","y","o","u","t">>
        \/ a + 5 <= Len(key) /\ SubSeq(key, a, a + 5) = <<"w","i","d","g","e","t">>
        \/ a + 7 <= Len(key) /\ SubSeq(key, a, a + 7) = <<"p","o","s","i","t","i","o","n">>

(* Reference notions for the size column *)

(* a < b on byte counts *)
FewerBytes(a, b) ==
    \/ Len(a) < Len(b)
    \/ /\ Len(a) = Len(b)
       /\ \E j \in 1..Len(a) :
            a[j] < b[j] /\ \A n \in 1..(j - 1) : a[n] = b[n]

(* the cell the specification gives a byte count of 1 up to 1024^5 - 1:     *)
(* i is the number of digits after the first, the unit is the i-th of       *)
(* Bytes, KB, MB, GB, TB and the value is bytes / 1024^i to two decimals,   *)
(* that is h hundredths with (2h - 1) * 1024^i <= 200 * bytes and           *)
(* 200 * bytes < (2h + 1) * 1024^i, all three written with i + 2 digits.    *)
SpecCell(bytes) ==
    LET i == Len(bytes) - 1
        Times200[n \in 0..Len(bytes)] ==
            IF n = 0 THEN <<0>>
            ELSE LET t == 200 * bytes[Len(bytes) - n + 1] + Times200[n - 1][1]
                 IN <<t \div 1024, t % 1024>> \o Tail(Times200[n - 1])
        Shifted(m) == <<m \div 1024, m % 1024>> \o [n \in 1..i |-> 0]
        h == CHOOSE n \in (100 * bytes[1])..(100 * bytes[1] + 100) :
                /\ ~FewerBytes(Times200[Len(bytes)], Shifted(2 * n - 1))
                /\ FewerBytes(Times200[Len(bytes)], Shifted(2 * n + 1))
    IN [num |-> h, unit |-> <<"Bytes", "KB", "MB", "GB", "TB">>[i + 1]]

(* the fields of a row the filter reads as text, and those it reads from    *)
(* the first lifecycle rule                                                 *)
LifecycleFields == {"lifecycleRule", "lifecycleStatus", "storageClass"}
TextFields == {"name", "account", "accountId", "region"} \cup LifecycleFields

(* s without its k-th element; t is s with exactly one element added at the *)
(* end; t holds the elements of s, each as often                            *)
Without(s, k) == [j \in 1..(Len(s) - 1) |-> IF j < k THEN s[j] ELSE s[j + 1]]
OneAppended(s, t) == Len(t) = Len(s) + 1 /\ \A j \in 1..Len(s) : t[j] = s[j]
Permutation(s, t) ==
    /\ Len(t) = Len(s)
    /\ \A x \in Range(s) \cup Range(t) :
        Cardinality({j \in 1..Len(s) : s[j] = x}) = Cardinality({j \in 1..Len(t) : t[j] = x})

(* qs has the pages of ps, in their order and under their ids, those not    *)
(* named by pageId as they were                                             *)
OnePageTouched(ps, qs, pageId) ==
    /\ Len(qs) = Len(ps)
    /\ \A k \in 1..Len(ps) :
        /\ qs[k].id = ps[k].id
        /\ ps[k].id # pageId => qs[k] = ps[k]
(* the widgets of ps, all but those named widgetId on a page named pageId,  *)
(* are in qs at their places in the order, under their ids                  *)
WidgetIdsKept(ps, qs, pageId, widgetId) ==
    \A k \in 1..Len(ps) :
        LET ids(p) == [j \in 1..Len(p.widgets) |-> p.widgets[j].id]
            kept == IF ps[k].id = pageId
                    THEN FilterSeq(ids(ps[k]), {i \in Range(ids(ps[k])) : i # widgetId})
                    ELSE ids(ps[k])
        IN k <= Len(qs) /\ Len(ids(qs[k])) >= Len(kept)
            /\ SubSeq(ids(qs[k]), 1, Len(kept)) = kept
(* qs is ps with one page more at the end *)
OnePageAppended(ps, qs) == Len(qs) = Len(ps) + 1 /\ SubSeq(qs, 1, Len(ps)) = ps

(* Reference notions for the table claims *)

(* the value the grid's column shows for a row (valueGetter of the column   *)
(* definitions, lines 113-190)                                              *)
ColumnValue(row, field) ==
    CASE field = "name" -> row.attributes.Name
      [] field = "region" -> row.attributes.Region
      [] field = "lifecycleRule" ->
            IF row.attributes.lifecycle = <<>> \/ row.attributes.lifecycle[1].LifecycleRule = <<>>
            THEN NA ELSE row.attributes.lifecycle[1].LifecycleRule

(* two letters that differ at most in case *)
CasePairs == {{"a", "A"}, {"f", "F"}, {"n", "N"}, {"o", "O"}}
SameLetter(c, d) == c = d \/ {c, d} \in CasePairs
SameText(s, t) == Len(s) = Len(t) /\ \A k \in 1..Len(s) : SameLetter(s[k], t[k])
CaseBlindOperators == {"contains", "equals", "startsWith", "endsWith"}
Matches(value, filter) ==
    LET v == filter.value
        n == Len(v)
        At0(k) == k >= 1 /\ k + n - 1 <= Len(value) /\ SameText(SubSeq(value, k, k + n - 1), v)
    IN CASE filter.operator = "contains" -> \E k \in 1..(Len(value) + 1) : At0(k)
         [] filter.operator = "equals" -> SameText(value, v)
         [] filter.operator = "startsWith" -> At0(1)
         [] filter.operator = "endsWith" -> At0(Len(value) - n + 1)
RECURSIVE MatchingRows(_, _)
MatchingRows(data, filter) ==
    IF data = <<>> THEN <<>>
    ELSE (IF Matches(ColumnValue(Head(data), filter.field), filter)
          THEN <<Head(data)>> ELSE <<>>) \o MatchingRows(Tail(data), filter)

----------------------------------------------------------------------------
(* Claims about the store *)

(* C1: from an empty store, after any sequence of addPage, removePage,      *)
(* addWidgetToPage, removeWidgetFromPage, copyWidget and importPage, every  *)
(* page has its widgets and its layout in lockstep: each widget id is the i *)
(* of exactly one layout item and each i the id of exactly one widget.      *)
C1_Lockstep == \A k \in 1..Len(pages) : Lockstep(pages[k])

(* C2: after a successful importPage of a document whose layout items all   *)
(* name widgets of the document, the appended page has one widget per       *)
(* document widget, each under an id that differs from the one it had in    *)
(* the document, and each layout item carries the new id of the widget it   *)
(* named, with x, y, w, h unchanged.                                        *)
C2_ImportRewritesIds ==
    (last.op = "importPage" /\ ~Threw(last) /\ LayoutNamesWidgets(last.config)) =>
        LET ws == last.config.widgets.v
            ls == last.config.layout.v
            p == pages[Len(pages)]
        IN /\ Len(p.widgets) = Len(ws)
           /\ \A k \in 1..Len(ws) :
                /\ p.widgets[k].id # ws[k].id
                /\ p.widgets[k] = [ws[k] EXCEPT !.id = p.widgets[k].id]
           /\ Len(p.layout) = Len(ls)
           /\ \A m \in 1..Len(ls) :
                /\ \E j \in 1..Len(ws) :
                    ws[j].id = ls[m].i /\ p.layout[m].i = p.widgets[j].id
                /\ p.layout[m] = [ls[m] EXCEPT !.i = p.layout[m].i]

(* C5: importPage fails with the validation error and appends no page when  *)
(* the title is not a non-empty string or widgets or layout is not an       *)
(* array, and succeeds, appending a page, in every other case.              *)
C5_ImportValidation ==
    [][(last'.op = "importPage" /\ nops' = nops + 1) =>
        IF ShouldReject(last'.config)
        THEN last'.error = "Invalid page configuration" /\ pages' = pages
        ELSE ~Threw(last') /\ Len(pages') = Len(rendered) + 1]_vars

C7_ResetSweeps ==
    (last.op = "resetAllPages" /\ ~dirty) =>
        /\ pages = <<>>
        /\ KeyCustomPages \in DOMAIN storage
        /\ InitialPages(storage) = <<>>
        /\ \A key \in DOMAIN storage : ~Swept(key)

(* C7 witness: a reset has been flushed on a storage that held keys of      *)
(* every pattern next to an unrelated key, which is left.                   *)
C7_Witness ==
    /\ last.op = "resetAllPages"
    /\ ~dirty
    /\ rendered = <<>>
    /\ KeyTheme \in DOMAIN storage

(* C8: once a store operation and its render are done, the customPages blob *)
(* decodes to exactly the page collection in memory, and a store mounted on *)
(* that storage starts with the same collection.                            *)
C8_WriteThrough ==
    (last.op # "mount" /\ ~dirty) =>
        /\ KeyCustomPages \in DOMAIN storage
        /\ storage[KeyCustomPages] = pages
        /\ InitialPages(storage) = pages

(* C9: every store operation yields the collection that the operation makes *)
(* of the collection the previous operation left, also when no render has   *)
(* come between the two.                                                    *)
C9_NoLostUpdates ==
    [][(nops' = nops + 1) =>
        CASE last'.op = "addPage" ->
                \E title \in PageTitles, id \in Ids : pages' = addPage(pages, title, id)
          [] last'.op = "removePage" ->
                \E id \in AnyIds : pages' = removePage(pages, id)
          [] last'.op = "addWidgetToPage" ->
                \E pageId \in AnyIds, in \in WidgetInputs, g \in [1..Len(pages) -> Ids] :
                    pages' = addWidgetToPage(pages, pageId, in.type, in.title, in.isHeart, g)
          [] last'.op = "removeWidgetFromPage" ->
                \E pageId \in AnyIds, widgetId \in AnyIds :
                    pages' = removeWidgetFromPage(pages, pageId, widgetId)
          [] last'.op = "updatePageLayout" ->
                \E pageId \in AnyIds :
                    \E layout \in {WildLayout} \cup
                            {Resolved(rendered[k].layout) : k \in 1..Len(rendered)} :
                        pages' = updatePageLayout(pages, pageId, layout)
          [] last'.op = "copyWidget" ->
                \E pageId \in AnyIds, widgetId \in AnyIds, g \in [1..Len(pages) -> Ids] :
                    pages' = copyWidget(pages, pageId, widgetId, g)
          [] last'.op = "resetAllPages" -> pages' = <<>>
          [] last'.op = "updatePageTitle" ->
                \E pageId \in AnyIds, newTitle \in NewTitles :
                    pages' = updatePageTitle(pages, pageId, newTitle)
          [] last'.op = "updateWidgetTitle" ->
                \E pageId \in AnyIds, widgetId \in AnyIds, newTitle \in NewTitles :
                    pages' = updateWidgetTitle(pages, pageId, widgetId, newTitle)
          [] last'.op = "importPage" ->
                IF Threw(last') THEN pages' = pages
                ELSE \E g \in [1..Len(last'.config.widgets.v) -> Ids], pid \in Ids :
                        pages' = importPage(pages, storage, last'.config, g, pid).pages
          [] OTHER -> FALSE]_vars

(* C11 as stated: addPage and addWidgetToPage called on the store with a    *)
(* title that is empty after trimming leave the page collection unchanged.  *)
C11_StoreIgnoresBlankTitle ==
    [][(nops' = nops + 1 /\ last'.op \in {"addPage", "addWidgetToPage"}
            /\ Trim(last'.args.title) = EmptyString)
        => pages' = pages]_vars

(* C11 amended: the handlers of the add-page and add-widget dialogs, given  *)
(* a title that is empty after trimming, leave the page collection and the  *)
(* storage unchanged.                                                       *)
C11_DialogIgnoresBlankTitle ==
    [][(nops' = nops + 1 /\ last'.op \in {"handleAddPage", "handleAddWidget"}
            /\ Trim(last'.args.title) = EmptyString)
        => (pages' = pages /\ storage' = storage /\ dirty' = dirty)]_vars

(* C11 witness: the add-widget dialog was confirmed with a title of spaces  *)
(* on a page that shows, and the collection is the one rendered.            *)
C11_Witness ==
    /\ last.op = "handleAddWidget"
    /\ last.args.title = Blank
    /\ HasPage(pages, last.args.pageId)
    /\ pages = rendered

(* C12: after removeWidgetFromPage(pageId, widgetId) for a widget that is   *)
(* on that page, the page holds no widget with that id and no layout item   *)
(* with that i, and storage holds no s3-buckets-filters key of that id.     *)
C12_RemoveWidgetComplete ==
    [][(nops' = nops + 1 /\ last'.op = "removeWidgetFromPage"
            /\ HasWidget(pages, last'.args.pageId, last'.args.widgetId))
        => /\ \A k \in 1..Len(pages') :
                pages'[k].id = last'.args.pageId =>
                    /\ \A j \in 1..Len(pages'[k].widgets) :
                            pages'[k].widgets[j].id # last'.args.widgetId
                    /\ \A m \in 1..Len(pages'[k].layout) :
                            pages'[k].layout[m].i # last'.args.widgetId
           /\ FilterKey(last'.args.widgetId) \notin DOMAIN storage']_vars

(* C13: removePage, addWidgetToPage, removeWidgetFromPage, updatePageLayout,*)
(* copyWidget, updatePageTitle and updateWidgetTitle called with a page id  *)
(* that is not in the collection, or (removeWidgetFromPage, copyWidget,     *)
(* updateWidgetTitle) with a widget id that is not on the page, raise no    *)
(* error and leave every page as it was.                                    *)
C13_NotFoundIsNoOp ==
    [][(/\ nops' = nops + 1
        /\ \/ /\ last'.op = "removePage"
              /\ ~HasPage(pages, last'.args.id)
           \/ /\ last'.op \in {"addWidgetToPage", "updatePageLayout", "updatePageTitle"}
              /\ ~HasPage(pages, last'.args.pageId)
           \/ /\ last'.op \in {"removeWidgetFromPage", "copyWidget", "updateWidgetTitle"}
              /\ ~HasWidget(pages, last'.args.pageId, last'.args.widgetId))
        => (~Threw(last') /\ pages' = pages)]_vars

(* C14: for a page of the collection and a non-blank title, addWidgetToPage *)
(* appends exactly one widget (fresh id, the given type, title and isHeart) *)
(* and exactly one layout item with i that id, x = (layout length before    *)
(* the call * 2) mod the grid's 20 columns, y the append-at-bottom          *)
(* sentinel, w = 6 and h = 4.                                               *)
C14_DefaultSlot ==
    [][(nops' = nops + 1 /\ last'.op = "addWidgetToPage"
            /\ Trim(last'.args.title) # EmptyString
            /\ HasPage(pages, last'.args.pageId))
        => /\ Len(pages') = Len(pages)
           /\ \A k \in 1..Len(pages) :
                pages[k].id = last'.args.pageId =>
                    LET p == pages[k]
                        q == pages'[k]
                        n == Len(p.widgets) + 1
                    IN /\ Len(q.widgets) = n
                       /\ SubSeq(q.widgets, 1, n - 1) = p.widgets
                       /\ q.widgets[n].id \notin issued \cup WidgetIds(p)
                       /\ q.widgets[n].type = last'.args.type
                       /\ q.widgets[n].title = last'.args.title
                       /\ q.widgets[n].isHeart = last'.args.isHeart
                       /\ q.layout = Append(p.layout, SpecSlot(p, q.widgets[n].id))]_vars

(* C15: for a widget that is on the page, copyWidget appends one widget     *)
(* that equals the source in every field but the id, which is fresh, and    *)
(* one layout item for it in the default slot addWidgetToPage would give    *)
(* (not the source's position or size); the widgets and layout items that   *)
(* were there, the source's among them, are unchanged.                      *)
C15_CopyWidget ==
    [][(nops' = nops + 1 /\ last'.op = "copyWidget"
            /\ HasWidget(pages, last'.args.pageId, last'.args.widgetId))
        => /\ Len(pages') = Len(pages)
           /\ \A k \in 1..Len(pages) :
                IF pages[k].id = last'.args.pageId
                    /\ FindWidget(pages[k], last'.args.widgetId) # 0
                THEN LET p == pages[k]
                         q == pages'[k]
                         n == Len(p.widgets) + 1
                         source == p.widgets[FindWidget(p, last'.args.widgetId)]
                     IN /\ Len(q.widgets) = n
                        /\ SubSeq(q.widgets, 1, n - 1) = p.widgets
                        /\ q.widgets[n].id \notin issued \cup WidgetIds(p)
                        /\ q.widgets[n] = [source EXCEPT !.id = q.widgets[n].id]
                        /\ q.layout = Append(p.layout, AddSlot(p, q.widgets[n].id))
                ELSE pages'[k] = pages[k]]_vars

(* C16: after updatePageLayout(pageId, newLayout) on a page of the          *)
(* collection, that page's layout is newLayout exactly and its id, title    *)
(* and widgets are what they were.                                          *)
C16_LayoutReplacedVerbatim ==
    [][(nops' = nops + 1 /\ last'.op = "updatePageLayout"
            /\ HasPage(pages, last'.args.pageId))
        => /\ Len(pages') = Len(pages)
           /\ \A k \in 1..Len(pages) :
                pages[k].id = last'.args.pageId =>
                    /\ pages'[k].layout = last'.args.layout
                    /\ pages'[k].id = pages[k].id
                    /\ pages'[k].title = pages[k].title
                    /\ pages'[k].widgets = pages[k].widgets]_vars

(* C17: after a successful importPage, for every s3-buckets widget of the   *)
(* document that carries a filters payload, storage holds that payload      *)
(* under the s3-buckets-filters key of the widget's new id, and nothing has *)
(* been written under the key of its old id.                                *)
C17_ImportedFiltersFollowIds ==
    [][(nops' = nops + 1 /\ last'.op = "importPage" /\ ~Threw(last'))
        => LET ws == last'.config.widgets.v
               new == pages'[Len(pages')].widgets
           IN \A k \in 1..Len(ws) :
                (ws[k].type = S3Buckets /\ "filters" \in DOMAIN ws[k]) =>
                    /\ FilterKey(new[k].id) \in DOMAIN storage'
                    /\ storage'[FilterKey(new[k].id)] = ws[k].filters
                    /\ FilterKey(ws[k].id) \in DOMAIN storage' =>
                        /\ FilterKey(ws[k].id) \in DOMAIN storage
                        /\ storage'[FilterKey(ws[k].id)] = storage[FilterKey(ws[k].id)]]_vars

(* C18: importing the configuration exported from a page P yields a new     *)
(* page with the same title, the same widgets up to id, the same layout     *)
(* items up to id, and the ids of P's widgets are mapped one-to-one to the  *)
(* new ids, the same way in widgets and layout.                             *)
C18_ExportImportRoundTrip ==
    [][(nops' = nops + 1 /\ last'.op = "handleImportPage")
        => LET P == last'.args.page
               new == pages'[Len(pages')]
           IN /\ ~Threw(last')
              /\ new.title = P.title
              /\ Len(new.widgets) = Len(P.widgets)
              /\ \A k \in 1..Len(P.widgets) :
                    /\ new.widgets[k].title = P.widgets[k].title
                    /\ new.widgets[k].type = P.widgets[k].type
                    /\ new.widgets[k].isHeart = P.widgets[k].isHeart
              /\ Len(new.layout) = Len(P.layout)
              /\ \A m \in 1..Len(P.layout) :
                    /\ new.layout[m].x = P.layout[m].x
                    /\ new.layout[m].y = P.layout[m].y
                    /\ new.layout[m].w = P.layout[m].w
                    /\ new.layout[m].h = P.layout[m].h
              /\ \A j, k \in 1..Len(P.widgets) :
                    (P.widgets[j].id = P.widgets[k].id)
                        <=> (new.widgets[j].id = new.widgets[k].id)
              /\ \A m \in 1..Len(P.layout), k \in 1..Len(P.widgets) :
                    P.layout[m].i = P.widgets[k].id
                        => new.layout[m].i = new.widgets[k].id]_vars

(* C19: with one filter term `field contains v` (equals, startsWith,        *)
(* endsWith) as the whole element list, the rows shown are exactly the rows *)
(* of the dataset, in order, whose value in that column contains (equals,   *)
(* starts with, ends with) v when letter case is ignored.                   *)
C19_SingleTermExact ==
    (/\ Len(filterElements) = 1
     /\ filterElements[1].type = "filter"
     /\ filterElements[1].filter.operator \in CaseBlindOperators)
        => filteredRows = MatchingRows(rows, filterElements[1].filter)

(* a term in capitals has kept a row whose value is not in capitals and     *)
(* dropped another row                                                      *)
C19_Witness ==
    /\ Len(filterElements) = 1
    /\ filterElements[1].type = "filter"
    /\ filterElements[1].filter.operator \in CaseBlindOperators
    /\ last.op \in {"handleAddFilter", "handleTrashDrop"}
    /\ filteredRows # <<>>
    /\ Len(filteredRows) < Len(rows)
    /\ \E k \in 1..Len(filteredRows) :
         ~Includes(ColumnValue(filteredRows[k], filterElements[1].filter.field),
                   filterElements[1].filter.value)

(* C20: when the table's element list is empty, the rows shown are the      *)
(* whole dataset, every row present and in the original order.              *)
C20_EmptyFilterIdentity ==
    filterElements = <<>> => filteredRows = rows

(* the last element has been dragged to the trash and every row is back *)
C20_Witness ==
    /\ filterElements = <<>>
    /\ last.op = "handleTrashDrop"
    /\ Len(rows) > 1
    /\ filteredRows = rows

(* C21: in every reachable state every layout item of every page has       *)
(* 0 <= x < 20 (the grid's columns), w > 0 and h > 0.                       *)
C21_LayoutItemBounds ==
    \A k \in 1..Len(pages) :
        \A m \in 1..Len(pages[k].layout) :
            /\ 0 <= pages[k].layout[m].x
            /\ pages[k].layout[m].x < GridColumns
            /\ pages[k].layout[m].w > 0
            /\ pages[k].layout[m].h > 0

(* C22: for any two byte counts a < b the comparator of the size column     *)
(* orders formatBytes(a) before formatBytes(b).                             *)
C22_SizeSortNumeric ==
    (sizeColumn.sorted /\ FewerBytes(sizeColumn.bytes[1], sizeColumn.bytes[2]))
        => sizeColumn.order < 0

(* C23: formatBytes(0) is "0 Bytes", formatBytes(1024) is "1 KB",           *)
(* formatBytes(1536) is "1.5 KB", and for 1 <= bytes < 1024^5 the result is *)
(* bytes / 1024^i rounded to two decimals with the i-th unit, i being       *)
(* floor(log_1024(bytes)).                                                  *)
C23_FormatBytesValues ==
    \A k \in 1..Len(sizeColumn.bytes) :
        LET bytes == sizeColumn.bytes[k]
            cell == sizeColumn.cells[k]
        IN /\ bytes = <<0>> => cell = [num |-> 0, unit |-> "Bytes"]
           /\ bytes = <<1, 0>> => cell = [num |-> 100, unit |-> "KB"]
           /\ bytes = <<1, 512>> => cell = [num |-> 150, unit |-> "KB"]
           /\ bytes # <<0>> => cell = SpecCell(bytes)

(* C24: a successful importPage leaves unchanged the `i` of every layout    *)
(* item of the document whose `i` is not the id of a widget of the          *)
(* document; the imported page can so hold a layout item whose `i` is the   *)
(* id of a widget of another page and of none of its own.                   *)
C24_UnmappedLayoutIdsPassThrough ==
    (last.op = "importPage" /\ ~Threw(last)) =>
        LET ws == last.config.widgets.v
            ls == last.config.layout.v
            p == pages[Len(pages)]
        IN /\ Len(p.layout) = Len(ls)
           /\ \A m \in 1..Len(ls) :
                (\A j \in 1..Len(ws) : ws[j].id # ls[m].i) => p.layout[m].i = ls[m].i

(* an imported page holds a layout item that names no widget of the         *)
(* document and of the page, and a widget of an earlier page                *)
C24_Witness ==
    /\ last.op = "importPage"
    /\ ~Threw(last)
    /\ LET p == pages[Len(pages)]
       IN \E m \in 1..Len(p.layout) :
            /\ p.layout[m].i = last.config.layout.v[m].i
            /\ \A j \in 1..Len(last.config.widgets.v) :
                    last.config.widgets.v[j].id # p.layout[m].i
            /\ p.layout[m].i \notin WidgetIds(p)
            /\ \E k \in 1..(Len(pages) - 1) : p.layout[m].i \in WidgetIds(pages[k])

(* C25: on every row whose lifecycle list is empty each of lifecycleRule,   *)
(* lifecycleStatus and storageClass resolves to "N/A", a term               *)
(* `<field> isEmpty` is true and `<field> isNotEmpty` is false, so a        *)
(* single-term isEmpty filter on such a field shows the row and a           *)
(* single-term isNotEmpty filter hides it; and on every row and field       *)
(* isNotEmpty is the negation of isEmpty.                                   *)
C25_AbsentLifecycleIsSentinel ==
    /\ \A k \in 1..Len(rows) :
        /\ rows[k].attributes.lifecycle = <<>> =>
            \A field \in LifecycleFields :
                /\ FieldValue(rows[k], field) = NA
                /\ TermHolds(FieldValue(rows[k], field), [operator |-> "isEmpty"])
                /\ ~TermHolds(FieldValue(rows[k], field), [operator |-> "isNotEmpty"])
        /\ \A field \in TextFields :
                TermHolds(FieldValue(rows[k], field), [operator |-> "isNotEmpty"])
                    <=> ~TermHolds(FieldValue(rows[k], field), [operator |-> "isEmpty"])
    /\ (/\ Len(filterElements) = 1
        /\ filterElements[1].type = "filter"
        /\ filterElements[1].filter.field \in LifecycleFields
        /\ filterElements[1].filter.operator \in {"isEmpty", "isNotEmpty"})
        => \A k \in 1..Len(rows) :
              rows[k].attributes.lifecycle = <<>> =>
                  ((rows[k] \in Range(filteredRows))
                      <=> (filterElements[1].filter.operator = "isEmpty"))

(* C25 as the code has it: on every row whose lifecycle list is empty       *)
(* lifecycleRule and lifecycleStatus resolve to "N/A" (isEmpty true,        *)
(* isNotEmpty false) and storageClass resolves to "STANDARD" (isEmpty       *)
(* false, isNotEmpty true), single-term filters show and hide the row       *)
(* accordingly, and on every row and field isNotEmpty is the negation of    *)
(* isEmpty.                                                                 *)
C25_AbsentLifecycleDefaults ==
    /\ \A k \in 1..Len(rows) :
        /\ rows[k].attributes.lifecycle = <<>> =>
            \A field \in LifecycleFields :
                LET value == FieldValue(rows[k], field)
                    empty == field # "storageClass"
                IN /\ value = IF empty THEN NA ELSE Standard
                   /\ TermHolds(value, [operator |-> "isEmpty"]) <=> empty
                   /\ TermHolds(value, [operator |-> "isNotEmpty"]) <=> ~empty
        /\ \A field \in TextFields :
                TermHolds(FieldValue(rows[k], field), [operator |-> "isNotEmpty"])
                    <=> ~TermHolds(FieldValue(rows[k], field), [operator |-> "isEmpty"])
    /\ (/\ Len(filterElements) = 1
        /\ filterElements[1].type = "filter"
        /\ filterElements[1].filter.field \in LifecycleFields
        /\ filterElements[1].filter.operator \in {"isEmpty", "isNotEmpty"})
        => \A k \in 1..Len(rows) :
              rows[k].attributes.lifecycle = <<>> =>
                  ((rows[k] \in Range(filteredRows))
                      <=> ((filterElements[1].filter.operator = "isEmpty")
                            <=> (filterElements[1].filter.field # "storageClass")))

(* the one term `storageClass isEmpty` has been added and hides a row that  *)
(* has no lifecycle rule                                                    *)
C25_Witness ==
    /\ last.op = "handleAddFilter"
    /\ Len(filterElements) = 1
    /\ filterElements[1].filter.field = "storageClass"
    /\ filterElements[1].filter.operator = "isEmpty"
    /\ \E k \in 1..Len(rows) :
        /\ rows[k].attributes.lifecycle = <<>>
        /\ rows[k] \notin Range(filteredRows)

(* C26: two providers mounted on the same storage, each mutating its own    *)
(* collection: whenever one of them flushes, the customPages blob becomes   *)
(* exactly that provider's collection, whatever the blob held; a page added *)
(* in one tab is never in the other tab's collection, so the blob written   *)
(* by the last flusher lacks the other tab's addition; and neither tab      *)
(* raises an error.                                                         *)
C26_LastWriterWins ==
    /\ [][/\ (dirty /\ ~dirty') => storage'[KeyCustomPages] = Json(pages)
          /\ (tab2.dirty /\ ~tab2'.dirty) => storage'[KeyCustomPages] = Json(tab2.pages)]_vars
    /\ [](/\ \A k \in 1..Len(pages) : pages[k].title \notin SecondTabTitles
          /\ \A k \in 1..Len(tab2.pages) : tab2.pages[k].title \notin FirstTabTitles
          /\ last.error = NoError
          /\ tab2.error = NoError)

(* both tabs have added a page and flushed, the second tab last: the blob   *)
(* is the second tab's collection and the first tab's page is lost          *)
C26_Witness ==
    /\ tab2.open
    /\ ~dirty
    /\ ~tab2.dirty
    /\ \E k \in 1..Len(pages) : pages[k].title \in FirstTabTitles
    /\ \E k \in 1..Len(tab2.pages) : tab2.pages[k].title \in SecondTabTitles
    /\ storage[KeyCustomPages] = Json(tab2.pages)
    /\ \A k \in 1..Len(storage[KeyCustomPages]) :
            storage[KeyCustomPages][k].title \notin FirstTabTitles

C30_OnePageOnly ==
    [][(nops' = nops + 1) =>
        /\ last'.op \in {"addWidgetToPage", "updatePageLayout", "copyWidget",
                         "updatePageTitle", "updateWidgetTitle"} =>
                /\ OnePageTouched(pages, pages', last'.args.pageId)
                /\ WidgetIdsKept(pages, pages', last'.args.pageId, Undefined)
        /\ last'.op = "removeWidgetFromPage" =>
                /\ OnePageTouched(pages, pages', last'.args.pageId)
                /\ WidgetIdsKept(pages, pages', last'.args.pageId, last'.args.widgetId)
        /\ last'.op = "addPage" => OnePageAppended(pages, pages')
        /\ last'.op = "importPage" =>
                IF Threw(last') THEN pages' = pages ELSE OnePageAppended(pages, pages')]_vars

(* C10: no id the store issues had been issued before, so page ids are      *)
(* unique in the collection and widget ids are unique within their page.   *)
C10_IdFreshness == reissued = {} /\ UniqueIds(pages)

====
